---- MODULE Spec2Model ----
(***************************************************************************)
(* ybb: reconstruction of a yabai BSP tree from window rectangles          *)
(* (ybb/tree.py), the window locator, the sibling-run analysis, and the    *)
(* stack command (ybb/commands/stack.py) with the yabai calls it issues,   *)
(* and the two renderings of the tree (format_tree, print_rich_tree).      *)
(*                                                                         *)
(* Coordinates are exact numbers counted in tenths of a unit, so the       *)
(* tolerance 0.1 of _find_best_split is 1 and the rectangle (0,0,50,100)   *)
(* is Frame(0,0,500,1000).  Centres are kept doubled (2*x + w), which      *)
(* keeps them integral and does not change any comparison of spreads.      *)
(***************************************************************************)
EXTENDS Integers, Sequences, FiniteSets, TLC

VARIABLES
    origin,     \* the layout the window list was read from, NoneNode if unknown
    windows,    \* the list of raw window records handed to reconstruct_tree
    tree,       \* the Node tree (bsp_tree), NoneNode before it exists
    pc,         \* position of the command: query, built, failed, found, notfound,
                \* siblings, running, done, resized, formatted, printed
    target,     \* the window id searched for (0 before a search)
    found_node, \* the WindowContext returned by find_window, NoneContext if None
    ancestors,  \* the ancestor accumulator list as find_window leaves it
    siblings,   \* the list returned by consecutive_split_siblings
    toggle,     \* the --toggle option of the stack command
    plan,       \* the steps the stack command has still to execute, in order
    issued,     \* the yabai calls made so far, each with its result
    outcome,    \* how the command ended: none, ok, exit1, crash
    stacks,     \* the window manager's stacks: a set of sets of window ids
    increment,  \* the increment argument of the resize command (0 before it)
    resizes,    \* the resize calls made by the resize command, each with its result
    output      \* the rendering of the tree that was written, <<>> before

vars == <<origin, windows, tree, pc, target, found_node, ancestors, siblings,
          toggle, plan, issued, outcome, stacks, increment, resizes, output>>
command == <<toggle, plan, issued, outcome, stacks, increment, resizes>>

(***************************************************************************)
(* Bounds of the model.                                                    *)
(***************************************************************************)
MaxWindows == 3
MaxLeaves == 3

(***************************************************************************)
(* data_types.py                                                           *)
(***************************************************************************)
VERTICAL == "vertical"
HORIZONTAL == "horizontal"
SplitType == {VERTICAL, HORIZONTAL}

\* Optional[int] stack_index: None is modelled by -1 (yabai indices are >= 0)
NoIndex == -1

Frame(x, y, w, h) == [x |-> x, y |-> y, w |-> w, h |-> h]
left(f) == f.x
top(f) == f.y
right(f) == f.x + f.w
bottom(f) == f.y + f.h
\* doubled centres: 2 * (x + w/2) and 2 * (y + h/2)
center_x(f) == 2 * f.x + f.w
center_y(f) == 2 * f.y + f.h

RawWindow(id, frame, stack_index) ==
    [id |-> id, frame |-> frame, stack_index |-> stack_index]

\* CardinalDirection
NORTH == "north"
SOUTH == "south"
EAST == "east"
WEST == "west"

\* a table that gives each axis the start direction of the other
start_direction_of_opposite(split_type) == IF split_type = VERTICAL THEN WEST ELSE NORTH
\* SplitType.start_direction
start_direction(split_type) == IF split_type = VERTICAL THEN NORTH ELSE WEST

\* CardinalDirection.opposite
opposite(direction) ==
    CASE direction = NORTH -> SOUTH
      [] direction = SOUTH -> NORTH
      [] direction = EAST -> WEST
      [] direction = WEST -> EAST

(***************************************************************************)
(* tree.py: the node model                                                 *)
(***************************************************************************)
NoneNode == [type |-> "none"]
\* the ValueError raised by _build_tree_recursive
ValueError == [type |-> "error"]

Window(id, frame) == [type |-> "window", id |-> id, frame |-> frame]
Stack(wins, frame) == [type |-> "stack", windows |-> wins, frame |-> frame]
Split(first, second, split_type, frame) ==
    [type |-> "split", first_child |-> first, second_child |-> second,
     split_type |-> split_type, frame |-> frame]

from_raw(raw) == Window(raw.id, raw.frame)
\* [Window.from_raw(w) for w in sorted_wins]
from_raw_all(ws) == [i \in DOMAIN ws |-> from_raw(ws[i])]

(***************************************************************************)
(* Helpers for Python's built-ins                                          *)
(***************************************************************************)
Abs(n) == IF n < 0 THEN -n ELSE n
MinOf(S) == CHOOSE m \in S : \A s \in S : m <= s
MaxOf(S) == CHOOSE m \in S : \A s \in S : s <= m
Range(s) == {s[i] : i \in DOMAIN s}

\* x or y on an Optional[int]: None and 0 are both falsy
PyOr(a, b) == IF a = NoIndex \/ a = 0 THEN b ELSE a

\* sorted(set): the elements of a set of numbers in ascending order
RECURSIVE SortedList(_)
SortedList(S) ==
    IF S = {} THEN <<>>
    ELSE LET m == MinOf(S) IN <<m>> \o SortedList(S \ {m})

\* one step of a stable insertion into a list of [k, v] pairs: e goes after every
\* element whose key is <= its key
RECURSIVE InsertStable(_, _)
InsertStable(s, e) ==
    IF s = <<>> THEN <<e>>
    ELSE IF Head(s).k <= e.k THEN <<Head(s)>> \o InsertStable(Tail(s), e)
    ELSE <<e>> \o s

RECURSIVE SortPairs(_)
SortPairs(s) ==
    IF s = <<>> THEN <<>>
    ELSE InsertStable(SortPairs(SubSeq(s, 1, Len(s) - 1)), s[Len(s)])

\* sorted(list, key=...), keys[i] being the key of s[i]: Python's sort is stable
sorted(s, keys) ==
    LET pairs == [i \in DOMAIN s |-> [k |-> keys[i], v |-> s[i]]]
        done == SortPairs(pairs)
    IN [i \in DOMAIN done |-> done[i].v]

(***************************************************************************)
(* tree.py: reconstruction                                                 *)
(***************************************************************************)
\* the tolerance 0.1, in tenths
Tol == 1

_create_frame_from_windows(ws) ==
    IF ws = <<>> THEN Frame(0, 0, 0, 0)
    ELSE LET min_x == MinOf({left(w.frame) : w \in Range(ws)})
             min_y == MinOf({top(w.frame) : w \in Range(ws)})
             max_r == MaxOf({right(w.frame) : w \in Range(ws)})
             max_b == MaxOf({bottom(w.frame) : w \in Range(ws)})
         IN Frame(min_x, min_y, max_r - min_x, max_b - min_y)

\* the two sides of a candidate line
LeftOf(ws, x) == SelectSeq(ws, LAMBDA w : right(w.frame) <= x + Tol)
RightOf(ws, x) == SelectSeq(ws, LAMBDA w : left(w.frame) >= x - Tol)
TopOf(ws, y) == SelectSeq(ws, LAMBDA w : bottom(w.frame) <= y + Tol)
BottomOf(ws, y) == SelectSeq(ws, LAMBDA w : top(w.frame) >= y - Tol)

\* a test that only asks each side to be shorter than the list
IsCleanSplitShorter(ws, before, after) ==
    before # <<>> /\ Len(before) < Len(ws) /\ Len(after) < Len(ws)
\* the test of lines 228 and 239
IsCleanSplit(ws, before, after) ==
    before # <<>> /\ after # <<>> /\ Len(before) + Len(after) = Len(ws)

NoSplit == [split_type |-> "none", line |-> 0]

\* the loop of lines 225-233 over the remaining candidates; acc = [best_split, max_spread]
RECURSIVE ScanVertical(_, _, _)
ScanVertical(ws, cands, acc) ==
    IF cands = <<>> THEN acc
    ELSE LET x == Head(cands)
             l == LeftOf(ws, x)
             r == RightOf(ws, x)
             spread == Abs(center_x(_create_frame_from_windows(l))
                           - center_x(_create_frame_from_windows(r)))
             next == IF IsCleanSplit(ws, l, r) /\ spread > acc.max_spread
                     THEN [best_split |-> [split_type |-> VERTICAL, line |-> x],
                           max_spread |-> spread]
                     ELSE acc
         IN ScanVertical(ws, Tail(cands), next)

\* the loop of lines 236-243
RECURSIVE ScanHorizontal(_, _, _)
ScanHorizontal(ws, cands, acc) ==
    IF cands = <<>> THEN acc
    ELSE LET y == Head(cands)
             t == TopOf(ws, y)
             b == BottomOf(ws, y)
             spread == Abs(center_y(_create_frame_from_windows(t))
                           - center_y(_create_frame_from_windows(b)))
             next == IF IsCleanSplit(ws, t, b) /\ spread > acc.max_spread
                     THEN [best_split |-> [split_type |-> HORIZONTAL, line |-> y],
                           max_spread |-> spread]
                     ELSE acc
         IN ScanHorizontal(ws, Tail(cands), next)

\* max_spread starts at -1 (doubled: -2); the result is NoSplit for Python's None
_find_best_split(ws) ==
    LET vertical_candidates ==
            {left(w.frame) : w \in Range(ws)} \cup {right(w.frame) : w \in Range(ws)}
        horizontal_candidates ==
            {top(w.frame) : w \in Range(ws)} \cup {bottom(w.frame) : w \in Range(ws)}
        start == [best_split |-> NoSplit, max_spread |-> -2]
        afterV == ScanVertical(ws, SortedList(vertical_candidates), start)
        afterH == ScanHorizontal(ws, SortedList(horizontal_candidates), afterV)
    IN afterH.best_split

\* a sort of the stack by descending index
StackKeyDescending(w) == 0 - PyOr(w.stack_index, 0)
\* key=lambda w: w.stack_index or 0
StackKey(w) == PyOr(w.stack_index, 0)
\* key=lambda w: w.stack_index or w.id
FallbackKey(w) == PyOr(w.stack_index, w.id)

RECURSIVE _build_tree_recursive(_)
_build_tree_recursive(ws) ==
    IF Len(ws) < 1 THEN ValueError
    ELSE LET first_frame == ws[1].frame IN
    IF \A i \in DOMAIN ws : ws[i].frame = first_frame
    THEN Stack(from_raw_all(sorted(ws, [i \in DOMAIN ws |-> StackKey(ws[i])])), first_frame)
    ELSE IF Len(ws) = 1 THEN from_raw(ws[1])
    ELSE LET split == _find_best_split(ws) IN
    IF split = NoSplit
    THEN Stack(from_raw_all(sorted(ws, [i \in DOMAIN ws |-> FallbackKey(ws[i])])),
               _create_frame_from_windows(ws))
    ELSE LET before == IF split.split_type = VERTICAL
                       THEN LeftOf(ws, split.line) ELSE TopOf(ws, split.line)
             after == IF split.split_type = VERTICAL
                      THEN RightOf(ws, split.line) ELSE BottomOf(ws, split.line)
             first_child == _build_tree_recursive(before)
             second_child == _build_tree_recursive(after)
         IN IF first_child = ValueError \/ second_child = ValueError
            THEN ValueError
            ELSE Split(first_child, second_child, split.split_type,
                       _create_frame_from_windows(ws))

\* a reconstruction that answers an empty list with an empty Stack
reconstruct_tree_lenient(ws) ==
    IF ws = <<>> THEN Stack(<<>>, _create_frame_from_windows(ws))
    ELSE _build_tree_recursive(ws)
reconstruct_tree(ws) == _build_tree_recursive(ws)

(***************************************************************************)
(* tree.py: the locator                                                    *)
(***************************************************************************)
NoneContext == [type |-> "none"]

WindowContext(window, root, anc, is_first_child, parent_stack) ==
    [window |-> window, tree |-> root, ancestors |-> anc,
     is_first_child |-> is_first_child, parent_stack |-> parent_stack]

\* a backtrack that forgets to pop
pop_forgotten(s) == s
\* list.pop()
pop(s) == SubSeq(s, 1, Len(s) - 1)

\* a Stack search that answers with the first member of a matching Stack
FirstMemberOfStack(wins, window_id) ==
    IF \E i \in DOMAIN wins : wins[i].id = window_id THEN 1 ELSE 0
\* lines 153-155: the index of the first member of a Stack with the given id,
\* 0 if there is none
FirstMember(wins, window_id) ==
    IF \E i \in DOMAIN wins : wins[i].id = window_id
    THEN MinOf({i \in DOMAIN wins : wins[i].id = window_id})
    ELSE 0

\* Window._find_window, Stack._find_window and Split._find_window.  The list
\* `anc` is mutated in place by the code, so the value returned here carries the
\* list as the call leaves it: [result, ancestors].
RECURSIVE _find_window(_, _, _, _, _)
_find_window(self, root, window_id, anc, is_first_child) ==
    CASE self.type = "window" ->
            IF self.id = window_id
            THEN [result |-> WindowContext(self, root, anc, is_first_child, NoneNode),
                  ancestors |-> anc]
            ELSE [result |-> NoneContext, ancestors |-> anc]
      [] self.type = "stack" ->
            LET i == FirstMember(self.windows, window_id) IN
            IF i # 0
            THEN [result |-> WindowContext(self.windows[i], root, anc, is_first_child, self),
                  ancestors |-> anc]
            ELSE [result |-> NoneContext, ancestors |-> anc]
      [] self.type = "split" ->
            LET pushed == Append(anc, self)
                r1 == _find_window(self.first_child, root, window_id, pushed, TRUE)
            IN IF r1.result # NoneContext THEN r1
               ELSE LET r2 == _find_window(self.second_child, root, window_id,
                                           r1.ancestors, FALSE)
                    IN IF r2.result # NoneContext THEN r2
                       ELSE [result |-> NoneContext, ancestors |-> pop(r2.ancestors)]

\* find_window: the search starts with a fresh empty list; the context returned
\* holds that same list object, so its ancestors are the list's final content
find_window(root, window_id) ==
    LET r == _find_window(root, root, window_id, <<>>, FALSE)
    IN [result |-> IF r.result = NoneContext THEN NoneContext
                   ELSE [r.result EXCEPT !.ancestors = r.ancestors],
        ancestors |-> r.ancestors]

(***************************************************************************)
(* tree.py: WindowContext.consecutive_split_siblings                       *)
(***************************************************************************)
\* lines 60-65: the furthest ancestor reached from the direct parent through
\* consecutive ancestors of its split type; i runs over reversed(ancestors[:-1])
\* a climb that skips ancestors of the other split type instead of stopping
RECURSIVE ClimbFromNoBreak(_, _, _, _)
ClimbFromNoBreak(anc, i, our_split_type, start_node) ==
    IF i < 1 THEN start_node
    ELSE IF anc[i].split_type = our_split_type
         THEN ClimbFromNoBreak(anc, i - 1, our_split_type, anc[i])
         ELSE ClimbFromNoBreak(anc, i - 1, our_split_type, start_node)
RECURSIVE ClimbFrom(_, _, _, _)
ClimbFrom(anc, i, our_split_type, start_node) ==
    IF i < 1 THEN start_node
    ELSE IF anc[i].split_type = our_split_type
         THEN ClimbFrom(anc, i - 1, our_split_type, anc[i])
         ELSE start_node

\* a start node that is always the closest Split
start_node_closest(anc) == anc[Len(anc)]
start_node_of(anc) ==
    ClimbFrom(anc, Len(anc) - 1, anc[Len(anc)].split_type, anc[Len(anc)])

\* append to the current group, which is always the last of the groups
AddToCurrent(groups, wins) ==
    [groups EXCEPT ![Len(groups)] = groups[Len(groups)] \o wins]

\* a traversal that merges the windows beneath a Split of the other axis into the
\* current group instead of breaking the run
RECURSIVE _traverse_merging(_, _, _)
_traverse_merging(current_node, our_split_type, groups) ==
    CASE current_node.type = "window" -> AddToCurrent(groups, <<current_node>>)
      [] current_node.type = "stack" -> AddToCurrent(groups, current_node.windows)
      [] current_node.type = "split" ->
            _traverse_merging(current_node.second_child, our_split_type,
                _traverse_merging(current_node.first_child, our_split_type, groups))
\* _traverse of lines 70-90: the groups after visiting current_node
RECURSIVE _traverse(_, _, _)
_traverse(current_node, our_split_type, groups) ==
    CASE current_node.type = "window" -> AddToCurrent(groups, <<current_node>>)
      [] current_node.type = "stack" -> AddToCurrent(groups, current_node.windows)
      [] current_node.type = "split" ->
            IF current_node.split_type = our_split_type
            THEN _traverse(current_node.second_child, our_split_type,
                           _traverse(current_node.first_child, our_split_type, groups))
            ELSE Append(groups, <<>>)

\* consecutive_siblings_groups after _traverse(start_node), line 92
consecutive_siblings_groups(ctx) ==
    _traverse(start_node_of(ctx.ancestors),
              ctx.ancestors[Len(ctx.ancestors)].split_type, <<(<<>>)>>)

InGroup(g, w) == \E i \in DOMAIN g : g[i] = w

\* a choice that always takes the first group
GroupOfFirst(groups, w) == groups[1]
\* next((x for x in groups if self.window in x), [self.window]), line 98
GroupOf(groups, w) ==
    IF \E k \in DOMAIN groups : InGroup(groups[k], w)
    THEN groups[MinOf({k \in DOMAIN groups : InGroup(groups[k], w)})]
    ELSE <<w>>

\* an analysis that does not look at the enclosing Stack
consecutive_split_siblings_unstacked(ctx) ==
    IF ctx.ancestors = <<>> THEN <<ctx.window>>
    ELSE LET groups == consecutive_siblings_groups(ctx) IN
         IF Len(groups) = 1 THEN groups[1]
         ELSE GroupOf(groups, ctx.window)
consecutive_split_siblings(ctx) ==
    IF ctx.parent_stack # NoneNode /\ Len(ctx.parent_stack.windows) > 1
    THEN ctx.parent_stack.windows
    ELSE IF ctx.ancestors = <<>> THEN <<ctx.window>>
    ELSE LET groups == consecutive_siblings_groups(ctx) IN
         IF Len(groups) = 1 THEN groups[1]
         ELSE GroupOf(groups, ctx.window)

(***************************************************************************)
(* yabai.py: the calls of the Window wrapper, each one run of `yabai -m     *)
(* window <window> ...`.  target is 0 and direction "" where a call has     *)
(* none.                                                                    *)
(***************************************************************************)
YabaiCall(op, window, target_window, direction) ==
    [op |-> op, window |-> window, target |-> target_window, direction |-> direction]

\* Window.toggle("float")
toggle_float(window) == YabaiCall("toggle", window, 0, "")
\* Window.insert(direction)
insert(window, direction) == YabaiCall("insert", window, 0, direction)
\* Window.stack(target_window): yabai.window(window).stack(target_window)
stack(window, target_window) == YabaiCall("stack", window, target_window, "")
\* Window.warp(target_window, insert_direction): the insert direction is set on
\* the target first, then the window is warped
warp(window, target_window, insert_direction) ==
    <<insert(target_window, insert_direction),
      YabaiCall("warp", window, target_window, "")>>

\* steps of a command that are no yabai call: raise typer.Exit(code=1), and a
\* call that raises TypeError before yabai is run
RaiseExit == YabaiCall("exit", 0, 0, "")
RaiseTypeError == YabaiCall("type_error", 0, 0, "")
IsYabaiCall(step) == step.op \in {"toggle", "insert", "stack", "warp"}

\* Window.ratio(type, ratio) called as ratio(ratio): the argument `ratio` is
\* missing, Python raises TypeError and no yabai command is run
ratio_one_argument(window, r) == <<RaiseTypeError>>

(***************************************************************************)
(* commands/stack.py                                                       *)
(***************************************************************************)
\* a collection that takes only the first window of a Stack
RECURSIVE _get_first_window_in_node(_)
_get_first_window_in_node(node) ==
    CASE node.type = "window" -> <<node.id>>
      [] node.type = "stack" ->
            IF node.windows = <<>> THEN <<>> ELSE <<node.windows[1].id>>
      [] node.type = "split" ->
            _get_first_window_in_node(node.first_child)
                \o _get_first_window_in_node(node.second_child)
      [] OTHER -> <<>>
RECURSIVE _get_all_windows_in_node(_)
_get_all_windows_in_node(node) ==
    CASE node.type = "window" -> <<node.id>>
      [] node.type = "stack" -> [i \in DOMAIN node.windows |-> node.windows[i].id]
      [] node.type = "split" ->
            _get_all_windows_in_node(node.first_child)
                \o _get_all_windows_in_node(node.second_child)
      [] OTHER -> <<>>

\* a fold that stacks into the last window found in the second child
fold_target_last(all_windows_in_second_child) ==
    IF all_windows_in_second_child # <<>>
    THEN all_windows_in_second_child[Len(all_windows_in_second_child)] ELSE 0
\* lines 139-143: the first window found in the second child, 0 for None
fold_target(all_windows_in_second_child) ==
    IF all_windows_in_second_child # <<>> THEN all_windows_in_second_child[1] ELSE 0

\* lines 145-148: one stack call per window of the first child other than the
\* target; a target of None or 0 is falsy and gives no call
StackInto(target_window_id, windows_from_first_child) ==
    IF target_window_id # 0 /\ windows_from_first_child # <<>>
    THEN LET moved == SelectSeq(windows_from_first_child,
                                LAMBDA win_id : win_id # target_window_id)
         IN [i \in DOMAIN moved |-> stack(target_window_id, moved[i])]
    ELSE <<>>

\* a traversal that stacks the children of a Split before it travels down
RECURSIVE _traverse_stacking_on_the_way_down(_, _)
_traverse_stacking_on_the_way_down(current_node, target_split_type) ==
    IF current_node.type # "split" THEN <<>>
    ELSE IF current_node.split_type # target_split_type THEN <<>>
    ELSE StackInto(fold_target(_get_all_windows_in_node(current_node.second_child)),
                   _get_all_windows_in_node(current_node.first_child))
         \o _traverse_stacking_on_the_way_down(current_node.first_child, target_split_type)
         \o _traverse_stacking_on_the_way_down(current_node.second_child, target_split_type)
\* _traverse of lines 122-148: the stack calls made beneath current_node, in order
RECURSIVE _traverse_stacking(_, _)
_traverse_stacking(current_node, target_split_type) ==
    IF current_node.type # "split" THEN <<>>
    ELSE IF current_node.split_type # target_split_type THEN <<>>
    ELSE _traverse_stacking(current_node.first_child, target_split_type)
         \o _traverse_stacking(current_node.second_child, target_split_type)
         \o StackInto(fold_target(_get_all_windows_in_node(current_node.second_child)),
                      _get_all_windows_in_node(current_node.first_child))

\* lines 114-120: i runs over range(len(ancestors) - 2, -1, -1)
RECURSIVE FoldClimb(_, _, _, _)
FoldClimb(anc, i, target_split_type, start_node) ==
    IF i < 1 THEN start_node
    ELSE IF anc[i].split_type = target_split_type
         THEN FoldClimb(anc, i - 1, target_split_type, anc[i])
         ELSE start_node

fold_start_node(anc) ==
    FoldClimb(anc, Len(anc) - 1, anc[Len(anc)].split_type, anc[Len(anc)])

\* a fold that answers a window without Split ancestor with an empty plan
_stack_recursive_splits_unguarded(ctx) ==
    IF Len(ctx.ancestors) = 0 THEN <<>>
    ELSE _traverse_stacking(fold_start_node(ctx.ancestors),
                            ctx.ancestors[Len(ctx.ancestors)].split_type)
\* the steps of _stack_recursive_splits(found_node)
_stack_recursive_splits(ctx) ==
    IF Len(ctx.ancestors) = 0 THEN <<RaiseExit>>
    ELSE _traverse_stacking(fold_start_node(ctx.ancestors),
                            ctx.ancestors[Len(ctx.ancestors)].split_type)

\* the loop of lines 90-98 from index i on (i counts from 1 as in the code, the
\* member at Python index i being window_ids[i + 1] here)
RECURSIVE UnrollLoop(_, _, _, _)
UnrollLoop(window_ids, i, base_window_id, opposite_direction) ==
    IF i >= Len(window_ids) THEN <<>>
    ELSE warp(window_ids[i + 1], base_window_id, opposite_direction)
         \o ratio_one_argument(base_window_id, i + 1)
         \o UnrollLoop(window_ids, i + 1, base_window_id, opposite_direction)

UnrollSteps(stack_node, parent_split_type) ==
    LET direction == start_direction(parent_split_type)
        opposite_direction == opposite(direction)
        window_ids == [i \in DOMAIN stack_node.windows |-> stack_node.windows[i].id]
        base_window_id == window_ids[1]
    IN <<toggle_float(base_window_id), toggle_float(base_window_id)>>
       \o warp(base_window_id, window_ids[2], direction)
       \o UnrollLoop(window_ids, 1, base_window_id, opposite_direction)

\* an unroll that returns early only for an empty Stack
_unroll_stack_eager(stack_node, parent_split_type) ==
    IF Len(stack_node.windows) = 0 THEN <<>>
    ELSE LET w == stack_node.windows[1].id IN <<toggle_float(w), toggle_float(w)>>
\* the steps of _unroll_stack(stack, parent_split_type)
_unroll_stack(stack_node, parent_split_type) ==
    IF Len(stack_node.windows) <= 1 THEN <<>>
    ELSE UnrollSteps(stack_node, parent_split_type)

\* the steps of _handle_toggle_operation(found_node); a Stack object is truthy
\* whatever its length
_handle_toggle_operation(ctx) ==
    (IF ctx.parent_stack # NoneNode
     THEN _unroll_stack(ctx.parent_stack,
                        IF Len(ctx.ancestors) = 0 THEN HORIZONTAL
                        ELSE ctx.ancestors[Len(ctx.ancestors)].split_type)
     ELSE <<>>)
    \o _stack_recursive_splits(ctx)

\* a handler that goes on with the steps that were left
except_ignored(rest) == rest
\* lines 187-189: YabaiError is caught at the end of stack_command, nothing that
\* was left of the command is executed
except_YabaiError(rest) == <<>>

(***************************************************************************)
(* commands/resize.py                                                      *)
(***************************************************************************)
\* Window.resize: yabai -m window <window> --resize axis:delta_x:delta_y
resize(window, axis, delta_x, delta_y) ==
    [op |-> "resize", window |-> window, axis |-> axis,
     delta_x |-> delta_x, delta_y |-> delta_y]

\* a choice of edge that does not look at the position of the child
resize_first_child_edge(window, split_type, is_first_child, inc) ==
    IF split_type = VERTICAL THEN resize(window, "right", inc, 0)
    ELSE resize(window, "bottom", 0, inc)
\* lines 50-75: the edge facing the parent Split and the deltas
resize_towards_split(window, split_type, is_first_child, inc) ==
    IF split_type = VERTICAL
    THEN IF is_first_child THEN resize(window, "right", inc, 0)
         ELSE resize(window, "left", 0 - inc, 0)
    ELSE IF is_first_child THEN resize(window, "bottom", 0, inc)
         ELSE resize(window, "top", 0, 0 - inc)

(***************************************************************************)
(* tree.py: rendering.  A label is kept as its parts: the kind of the node, *)
(* the window id of `app: title (id)`, the n of `(n windows)`, the split    *)
(* type, and whether the Nerd Font icon is used.                            *)
(***************************************************************************)
\* _format_node_label and _create_rich_node_label
Label(node, use_nerd_font) ==
    [kind |-> node.type,
     id |-> IF node.type = "window" THEN node.id ELSE 0,
     count |-> IF node.type = "stack" THEN Len(node.windows) ELSE 0,
     split_type |-> IF node.type = "split" THEN node.split_type ELSE "",
     icon |-> use_nerd_font]

\* children_to_render
children_to_render(node) ==
    CASE node.type = "split" -> <<node.first_child, node.second_child>>
      [] node.type = "stack" -> node.windows
      [] OTHER -> <<>>

\* one line of format_tree: the prefix as its list of segments ("    " is
\* blank, "|   " is bar), the connector and the label
TextLine(prefix, connector, label) ==
    [prefix |-> prefix, connector |-> connector, label |-> label]

\* format_tree._recurse, lines 321-342, and its loop over the children from
\* the i-th on
RECURSIVE _recurse_text(_, _, _, _)
RECURSIVE RecurseTextChildren(_, _, _, _)
_recurse_text(node, prefix, is_last, use_nerd_font) ==
    IF node.type = "stack" /\ Len(node.windows) = 1
    THEN _recurse_text(node.windows[1], prefix, is_last, use_nerd_font)
    ELSE <<TextLine(prefix, IF is_last THEN "last" ELSE "tee", Label(node, use_nerd_font))>>
         \o RecurseTextChildren(children_to_render(node), 1,
                                Append(prefix, IF is_last THEN "blank" ELSE "bar"),
                                use_nerd_font)
RecurseTextChildren(children, i, prefix, use_nerd_font) ==
    IF i > Len(children) THEN <<>>
    ELSE _recurse_text(children[i], prefix, i = Len(children), use_nerd_font)
         \o RecurseTextChildren(children, i + 1, prefix, use_nerd_font)

\* lines 346-347 and 417-418: a root Stack of one window is unwrapped
UnwrapRoot(root) ==
    IF root.type = "stack" /\ Len(root.windows) = 1 THEN root.windows[1] ELSE root

\* format_tree: the lines that are joined by "\n"
format_tree(root, use_nerd_font) ==
    LET shown == UnwrapRoot(root) IN
    <<TextLine(<<>>, "none", Label(shown, use_nerd_font))>>
    \o RecurseTextChildren(children_to_render(shown), 1, <<>>, use_nerd_font)

\* one node of the Rich tree: its depth below the root and its label, the nodes
\* being listed in the order they are added
RichNode(depth, label) == [depth |-> depth, label |-> label]

\* print_rich_tree._recurse, lines 401-414: the nodes added beneath the Rich
\* node of `node`, which is at the given depth; i is the child the loop is at
RECURSIVE _recurse_rich(_, _, _, _)
_recurse_rich(node, i, depth, use_nerd_font) ==
    LET children == children_to_render(node) IN
    IF i > Len(children) THEN <<>>
    ELSE LET child == children[i] IN
         (IF child.type = "stack" /\ Len(child.windows) = 1
          THEN <<RichNode(depth + 1, Label(child.windows[1], use_nerd_font))>>
          ELSE <<RichNode(depth + 1, Label(child, use_nerd_font))>>
               \o _recurse_rich(child, 1, depth + 1, use_nerd_font))
         \o _recurse_rich(node, i + 1, depth, use_nerd_font)

\* the loop of lines 429-432 over the children of the root: each child gets its
\* own label, whatever it is, and is then recursed into
RECURSIVE RichRootChildren(_, _, _)
RichRootChildren(children, i, use_nerd_font) ==
    IF i > Len(children) THEN <<>>
    ELSE <<RichNode(1, Label(children[i], use_nerd_font))>>
         \o _recurse_rich(children[i], 1, 1, use_nerd_font)
         \o RichRootChildren(children, i + 1, use_nerd_font)

\* print_rich_tree: the Rich tree that is printed
print_rich_tree(root, use_nerd_font) ==
    LET shown == UnwrapRoot(root) IN
    <<RichNode(0, Label(shown, use_nerd_font))>>
    \o RichRootChildren(children_to_render(shown), 1, use_nerd_font)

(***************************************************************************)
(* Inputs: the window lists the query collaborator may deliver, and the    *)
(* trees built directly from the node constructors (as tests/test_tree.py  *)
(* does).                                                                  *)
(***************************************************************************)
StackIndexes == {NoIndex, 0, 1, 2}

\* the rectangle (0,0,100,100) of the tests and of Scenario B, and a rectangle
\* that overlaps it without any clean line between the two
FrameA == Frame(0, 0, 1000, 1000)
FrameB == Frame(0, 0, 500, 1000)

Injections(n, S) == {f \in [1..n -> S] : \A i, j \in 1..n : i # j => f[i] # f[j]}

\* n rectangles, all FrameA (k = 0) or all but the k-th, which is FrameB
FramePatterns(n) == {[i \in 1..n |-> IF i = k THEN FrameB ELSE FrameA] : k \in 0..n}

\* horizontal and vertical extents [lo, hi] on a grid around the line 10, in
\* tenths: edges within the tolerance of the line, a window as narrow as the
\* tolerance, and windows that straddle the line
XExtents == << <<0, 10>>, <<10, 20>>, <<0, 20>>, <<0, 11>>, <<9, 20>>, <<10, 11>> >>
YExtents == << <<0, 10>>, <<10, 20>>, <<0, 20>> >>
GeomFrameCount == Len(XExtents) * Len(YExtents)
GeomFrame(k) ==
    LET xe == XExtents[((k - 1) \div Len(YExtents)) + 1]
        ye == YExtents[((k - 1) % Len(YExtents)) + 1]
    IN Frame(xe[1], ye[1], xe[2] - xe[1], ye[2] - ye[1])

\* lists of unstacked windows (stack index 0) over the grid, ids by position
GeomListsOf(n) ==
    {[i \in 1..n |-> RawWindow(i, GeomFrame(ks[i]), 0)] :
        ks \in {f \in [1..n -> 1..GeomFrameCount] :
                    \A i, j \in 1..n : i < j => f[i] <= f[j]}}
GeomLists == UNION {GeomListsOf(n) : n \in 1..MaxWindows}

\* trees built only from clean, non-degenerate splits of the rectangle `frame`,
\* cut at multiples of 10 units (100 tenths), with the window ids lo..hi in
\* leaf order and at most n leaves; a leaf is a Window or a Stack of two
RootFrame == Frame(0, 0, 300, 200)
VCuts(f) == {p \in {left(f) + 100, left(f) + 200} : p < right(f)}
HCuts(f) == {p \in {top(f) + 100} : p < bottom(f)}

RECURSIVE CleanOver(_, _, _, _)
CleanOver(f, lo, hi, n) ==
    (IF lo = hi THEN {Window(lo, f)} ELSE {})
    \cup (IF hi = lo + 1 THEN {Stack(<<Window(lo, f), Window(hi, f)>>, f)} ELSE {})
    \cup (IF n < 2 THEN {}
          ELSE UNION {
                 {Split(a, b, VERTICAL, f) :
                    a \in CleanOver(Frame(f.x, f.y, p - f.x, f.h), lo, mid, k),
                    b \in CleanOver(Frame(p, f.y, right(f) - p, f.h), mid + 1, hi, n - k)}
                 : p \in VCuts(f), mid \in lo..(hi - 1), k \in 1..(n - 1)}
           \cup UNION {
                 {Split(a, b, HORIZONTAL, f) :
                    a \in CleanOver(Frame(f.x, f.y, f.w, p - f.y), lo, mid, k),
                    b \in CleanOver(Frame(f.x, p, f.w, bottom(f) - p), mid + 1, hi, n - k)}
                 : p \in HCuts(f), mid \in lo..(hi - 1), k \in 1..(n - 1)})
CleanTrees == UNION {CleanOver(RootFrame, 1, hi, MaxLeaves) : hi \in 1..(2 * MaxLeaves)}

\* the flat window list of a tree, in leaf order: what yabai reports for the
\* layout (stack index 0 for an unstacked window, 1.. for the members of a stack)
RECURSIVE Flatten(_)
Flatten(node) ==
    CASE node.type = "window" -> <<RawWindow(node.id, node.frame, 0)>>
      [] node.type = "stack" ->
            [i \in DOMAIN node.windows |->
                RawWindow(node.windows[i].id, node.windows[i].frame,
                          IF Len(node.windows) = 1 THEN 0 ELSE i)]
      [] node.type = "split" -> Flatten(node.first_child) \o Flatten(node.second_child)

\* the scenarios of the specification, and the empty list
ScenarioA == <<RawWindow(1, Frame(0, 0, 500, 1000), 0),
               RawWindow(2, Frame(500, 0, 500, 1000), 0)>>
ScenarioB == <<RawWindow(1, FrameA, 2), RawWindow(2, FrameA, 0), RawWindow(3, FrameA, 1)>>
ScenarioC == <<RawWindow(1, Frame(0, 0, 1000, 500), 0),
               RawWindow(2, Frame(0, 500, 500, 500), 0),
               RawWindow(3, Frame(500, 500, 500, 500), 0)>>
ScenarioLists == {<<>>, ScenarioA, ScenarioB, ScenarioC}

\* Scenario D: three windows of 10 by 20 units in a row (side by side, for
\* VERTICAL) or in a column (for HORIZONTAL), listed from first to last, with the
\* gaps g1 and g2 between neighbours
RowOfThree(ids, g1, g2, split_type) ==
    LET at == <<0, 100 + g1, 200 + g1 + g2>> IN
    [i \in 1..3 |->
        RawWindow(ids[i],
                  IF split_type = VERTICAL THEN Frame(at[i], 0, 100, 200)
                  ELSE Frame(0, at[i], 200, 100),
                  0)]
RowIdOrders == {<<1, 2, 3>>, <<3, 1, 2>>}
\* rows without gaps or with the same gap of one unit twice
EvenRows ==
    {RowOfThree(ids, g, g, t) : ids \in RowIdOrders, g \in {0, 10}, t \in SplitType}
RowLists ==
    {RowOfThree(ids, g1, g2, t) :
        ids \in RowIdOrders, g1 \in {0, 10}, g2 \in {0, 10}, t \in SplitType}

\* trees built by hand, all nodes over the one rectangle of the tests, with the
\* window ids lo..hi in leaf order and at most n leaves; a leaf is a Window or
\* a Stack of one or two windows
RECURSIVE TreesOver(_, _, _)
TreesOver(lo, hi, n) ==
    (IF lo = hi THEN {Window(lo, FrameA), Stack(<<Window(lo, FrameA)>>, FrameA)} ELSE {})
    \cup (IF hi = lo + 1
          THEN {Stack(<<Window(lo, FrameA), Window(hi, FrameA)>>, FrameA)} ELSE {})
    \cup (IF n < 2 THEN {}
          ELSE UNION {
                 {Split(a, b, t, FrameA) :
                    a \in TreesOver(lo, mid, k), b \in TreesOver(mid + 1, hi, n - k),
                    t \in SplitType}
                 : mid \in lo..(hi - 1), k \in 1..(n - 1)})
HandTrees == UNION {TreesOver(1, hi, MaxLeaves) : hi \in 1..(2 * MaxLeaves)}

\* the tree of the docstring of consecutive_split_siblings
DocTree ==
    LET W(i) == Window(i, FrameA) IN
    Split(Split(Split(W(1), W(2), VERTICAL, FrameA),
                Split(W(3), Split(W(4), W(5), HORIZONTAL, FrameA), VERTICAL, FrameA),
                VERTICAL, FrameA),
          W(6), HORIZONTAL, FrameA)

\* the tree reconstruction returns when a narrow window lies on both sides of
\* the chosen line: the same window twice
DupTree ==
    LET S == Stack(<<Window(1, Frame(10, 0, 1, 10))>>, Frame(10, 0, 1, 10)) IN
    Split(S, S, VERTICAL, Frame(0, 0, 20, 10))

\* every window of a tree, Window leaves and Stack members, in leaf order
RECURSIVE AllWindows(_)
AllWindows(node) ==
    CASE node.type = "window" -> <<node>>
      [] node.type = "stack" -> node.windows
      [] node.type = "split" -> AllWindows(node.first_child) \o AllWindows(node.second_child)
      [] OTHER -> <<>>
WindowIds(node) == {w.id : w \in Range(AllWindows(node))}

\* the ids a command may be asked about: those of the tree and one that is absent
TargetIds(node) == WindowIds(node) \cup {MaxOf(WindowIds(node) \cup {0}) + 1}

(***************************************************************************)
(* The state machine                                                       *)
(***************************************************************************)
Idle ==
    /\ target = 0
    /\ found_node = NoneContext
    /\ ancestors = <<>>
    /\ siblings = <<>>
    /\ toggle = FALSE
    /\ plan = <<>>
    /\ issued = <<>>
    /\ outcome = "none"
    /\ stacks = {}
    /\ increment = 0
    /\ resizes = <<>>
    /\ output = <<>>

\* window lists of one rectangle, or of two overlapping ones, with the ids 1..n
\* in every order and every assignment of stack indices
InitIndexed ==
    \E n \in 1..MaxWindows :
        \E ids \in Injections(n, 1..n), fr \in FramePatterns(n), ix \in [1..n -> StackIndexes] :
            /\ origin = NoneNode
            /\ windows = [i \in 1..n |-> RawWindow(ids[i], fr[i], ix[i])]
            /\ tree = NoneNode
            /\ pc = "query"
            /\ Idle

\* a command starts with the window list of the focused space
InitQuery(lists) ==
    /\ origin = NoneNode
    /\ windows \in lists
    /\ tree = NoneNode
    /\ pc = "query"
    /\ Idle

\* the window list yabai reports for a layout it holds
InitLayout(trees) ==
    /\ origin \in trees
    /\ windows = Flatten(origin)
    /\ tree = NoneNode
    /\ pc = "query"
    /\ Idle

\* a tree built directly from the node constructors, without any query
InitBuilt(trees) ==
    /\ origin = NoneNode
    /\ windows = <<>>
    /\ tree \in trees
    /\ pc = "built"
    /\ Idle

Init ==
    \/ InitLayout(CleanTrees)
    \/ InitQuery(ScenarioLists \cup RowLists)
    \/ InitBuilt(HandTrees \cup {DocTree, DupTree})

InitReconstruct ==
    \/ InitLayout(CleanTrees)
    \/ InitIndexed
    \/ InitQuery(GeomLists \cup ScenarioLists)

\* bsp_tree = reconstruct_tree(all_windows_data)
Reconstruct ==
    /\ pc = "query"
    /\ LET t == reconstruct_tree(windows) IN
        /\ tree' = (IF t = ValueError THEN NoneNode ELSE t)
        /\ pc' = (IF t = ValueError THEN "failed" ELSE "built")
    /\ UNCHANGED <<origin, windows, target, found_node, ancestors, siblings, command, output>>

\* found_node = bsp_tree.find_window(target_window_id)
FindWindow(window_id) ==
    /\ pc = "built"
    /\ LET r == find_window(tree, window_id) IN
        /\ found_node' = r.result
        /\ ancestors' = r.ancestors
        /\ pc' = (IF r.result = NoneContext THEN "notfound" ELSE "found")
    /\ target' = window_id
    /\ UNCHANGED <<origin, windows, tree, siblings, command, output>>

\* found_node.consecutive_split_siblings()
ConsecutiveSplitSiblings ==
    /\ pc = "found"
    /\ siblings' = consecutive_split_siblings(found_node)
    /\ pc' = "siblings"
    /\ UNCHANGED <<origin, windows, tree, target, found_node, ancestors, command, output>>

\* the stacks of a layout: one per leaf of the tree
RECURSIVE LeafIdSets(_)
LeafIdSets(node) ==
    CASE node.type = "window" -> {{node.id}}
      [] node.type = "stack" -> {{node.windows[i].id : i \in DOMAIN node.windows}} \ {{}}
      [] node.type = "split" -> LeafIdSets(node.first_child) \cup LeafIdSets(node.second_child)

\* what a successful call does to the window manager's stacks: `stack` moves the
\* given window into the stack that holds the selected one; a float toggle or a
\* warp leaves the window in a place of its own; `insert` moves nothing
Actuate(sets, call) ==
    LET moved == IF call.op = "stack" THEN call.target ELSE call.window
        without == {g \ {moved} : g \in sets} \ {{}}
    IN CASE call.op = "stack" ->
                {IF call.window \in g THEN g \cup {moved} ELSE g : g \in without}
         [] call.op \in {"toggle", "warp"} -> without \cup {{moved}}
         [] OTHER -> sets

\* stack_command after find_window, lines 182-185: the command starts on its steps
StackCommand(tg) ==
    /\ pc = "found"
    /\ LET steps == IF tg THEN _handle_toggle_operation(found_node)
                     ELSE _stack_recursive_splits(found_node)
       IN /\ plan' = steps
          /\ pc' = (IF steps = <<>> THEN "done" ELSE "running")
          /\ outcome' = (IF steps = <<>> THEN "ok" ELSE "none")
    /\ toggle' = tg
    /\ issued' = <<>>
    /\ stacks' = LeafIdSets(tree)
    /\ UNCHANGED <<origin, windows, tree, target, found_node, ancestors, siblings,
                   increment, resizes, output>>

\* the next step is a yabai call: yabai.call runs it and raises YabaiError when
\* yabai exits with a non-zero code
IssueCall ==
    /\ pc = "running"
    /\ IsYabaiCall(Head(plan))
    /\ \E ok \in BOOLEAN :
        LET rest == IF ok THEN Tail(plan) ELSE except_YabaiError(Tail(plan)) IN
        /\ issued' = Append(issued, [call |-> Head(plan), ok |-> ok])
        /\ stacks' = (IF ok THEN Actuate(stacks, Head(plan)) ELSE stacks)
        /\ plan' = rest
        /\ outcome' = (IF ~ok THEN "exit1" ELSE IF rest = <<>> THEN "ok" ELSE outcome)
        /\ pc' = (IF rest = <<>> THEN "done" ELSE "running")
    /\ UNCHANGED <<origin, windows, tree, target, found_node, ancestors, siblings,
                   toggle, increment, resizes, output>>

\* the next step raises: typer.Exit(code=1) of line 109, or the TypeError of
\* line 98, which stack_command does not catch
Raise ==
    /\ pc = "running"
    /\ ~IsYabaiCall(Head(plan))
    /\ outcome' = (IF Head(plan) = RaiseExit THEN "exit1" ELSE "crash")
    /\ plan' = <<>>
    /\ pc' = "done"
    /\ UNCHANGED <<origin, windows, tree, target, found_node, ancestors, siblings,
                   toggle, issued, stacks, increment, resizes, output>>

\* the increments the resize command is called with
Increments == {-20, 10}

\* resize_command after find_window, lines 40-79: a window without Split
\* ancestor ends the command with exit code 1 and no call; otherwise one resize
\* call is made, and a YabaiError it raises ends the command with exit code 1
ResizeCommand(inc) ==
    /\ pc = "found"
    /\ increment' = inc
    /\ IF Len(found_node.ancestors) = 0
       THEN /\ resizes' = <<>>
            /\ outcome' = "exit1"
       ELSE \E ok \in BOOLEAN :
            LET parent_split == found_node.ancestors[Len(found_node.ancestors)] IN
            /\ resizes' = <<[call |-> resize_towards_split(target, parent_split.split_type,
                                                           found_node.is_first_child, inc),
                             ok |-> ok]>>
            /\ outcome' = (IF ok THEN "ok" ELSE "exit1")
    /\ pc' = "resized"
    /\ UNCHANGED <<origin, windows, tree, target, found_node, ancestors, siblings,
                   toggle, plan, issued, stacks, output>>

\* format_tree(tree, use_nerd_font) on the tree of the space
FormatTree(use_nerd_font) ==
    /\ pc = "built"
    /\ output' = format_tree(tree, use_nerd_font)
    /\ pc' = "formatted"
    /\ UNCHANGED <<origin, windows, tree, target, found_node, ancestors, siblings, command>>

\* print_rich_tree(tree_structure, use_nerd_font=nerd_font), main.py line 113
PrintRichTree(use_nerd_font) ==
    /\ pc = "built"
    /\ output' = print_rich_tree(tree, use_nerd_font)
    /\ pc' = "printed"
    /\ UNCHANGED <<origin, windows, tree, target, found_node, ancestors, siblings, command>>

Next ==
    \/ Reconstruct
    \/ \E window_id \in TargetIds(tree) : FindWindow(window_id)
    \/ ConsecutiveSplitSiblings
    \/ \E tg \in BOOLEAN : StackCommand(tg)
    \/ IssueCall
    \/ Raise
    \/ \E inc \in Increments : ResizeCommand(inc)
    \/ \E use_nerd_font \in BOOLEAN : FormatTree(use_nerd_font)
    \/ \E use_nerd_font \in BOOLEAN : PrintRichTree(use_nerd_font)

Spec == Init /\ [][Next]_vars

\* reconstruction alone, over the wide family of window lists
SpecReconstruct == InitReconstruct /\ [][Reconstruct]_vars

(***************************************************************************)
(* Properties of the reconstruction (checked under SpecReconstruct)        *)
(***************************************************************************)
AllSameFrame(ws) == \A i \in DOMAIN ws : ws[i].frame = ws[1].frame
RawById(ws, id) == CHOOSE w \in Range(ws) : w.id = id
\* a stack index as a number, an absent one counting as 0
IndexOf(w) == IF w.stack_index = NoIndex THEN 0 ELSE w.stack_index
\* the Stack holds exactly the windows of the list
HoldsAll(node, ws) ==
    /\ node.type = "stack"
    /\ Len(node.windows) = Len(ws)
    /\ Range(node.windows) = {from_raw(w) : w \in Range(ws)}

\* C1: a non-empty list of windows with identical rectangles reconstructs to one
\* Stack of all the windows, ascending by stack index and, among equal indices,
\* ascending by id.
C1_StackByIndexThenId ==
    (pc = "built" /\ AllSameFrame(windows)) =>
        /\ HoldsAll(tree, windows)
        /\ \A i, j \in DOMAIN tree.windows : i < j =>
              LET a == RawById(windows, tree.windows[i].id)
                  b == RawById(windows, tree.windows[j].id)
              IN \/ IndexOf(a) < IndexOf(b)
                 \/ (IndexOf(a) = IndexOf(b) /\ a.id < b.id)

RECURSIVE HasSingletonStack(_)
HasSingletonStack(node) ==
    CASE node.type = "stack" -> Len(node.windows) = 1
      [] node.type = "split" ->
            HasSingletonStack(node.first_child) \/ HasSingletonStack(node.second_child)
      [] OTHER -> FALSE

\* C2: a list of exactly one window, at the top level or on one side of a split,
\* becomes a bare Window leaf and never a Stack; Scenario A reconstructs to
\* Split(VERTICAL, Window(1), Window(2)) over (0,0,100,100).
C2_SingleWindowIsBareLeaf ==
    pc = "built" =>
        /\ ~HasSingletonStack(tree)
        /\ windows = ScenarioA =>
              tree = Split(Window(1, Frame(0, 0, 500, 1000)),
                           Window(2, Frame(500, 0, 500, 1000)),
                           VERTICAL, Frame(0, 0, 1000, 1000))

\* the shape of a tree: split axes, nesting and the members of every leaf, a bare
\* Window counting as the leaf of its one window
RECURSIVE Shape(_)
Shape(node) ==
    CASE node.type = "window" -> [kind |-> "leaf", ids |-> <<node.id>>]
      [] node.type = "stack" ->
            [kind |-> "leaf", ids |-> [i \in DOMAIN node.windows |-> node.windows[i].id]]
      [] node.type = "split" ->
            [kind |-> "split", axis |-> node.split_type,
             first |-> Shape(node.first_child), second |-> Shape(node.second_child)]

\* the leaves of a tree, each as the list of its windows
RECURSIVE LeafGroups(_)
LeafGroups(node) ==
    CASE node.type = "window" -> {<<node>>}
      [] node.type = "stack" -> {node.windows}
      [] node.type = "split" -> LeafGroups(node.first_child) \cup LeafGroups(node.second_child)

RECURSIVE HasNestedSplit(_)
HasNestedSplit(node) ==
    node.type = "split"
    /\ (node.first_child.type = "split" \/ node.second_child.type = "split")

\* C3 as claimed: reconstructing the flattened list of a tree built from clean
\* splits gives back a tree of the same shape (axes, nesting, stack membership).
C3_RoundTripSameShape ==
    (pc = "built" /\ origin # NoneNode) => Shape(tree) = Shape(origin)

\* C3 as amended: the tree reconstructed from the flattened list of a tree built
\* from clean splits has the same leaves (every Stack with its members in the same
\* order, every bare Window as the leaf of that one window) and the same root
\* rectangle; the axes and the nesting of its Splits may differ.
C3_RoundTripSameLeaves ==
    (pc = "built" /\ origin # NoneNode) =>
        /\ LeafGroups(tree) = LeafGroups(origin)
        /\ tree.frame = origin.frame

C3_WitnessRoundTrip ==
    /\ pc = "built"
    /\ origin # NoneNode
    /\ HasNestedSplit(origin)
    /\ \E g \in LeafGroups(origin) : Len(g) = 2
    /\ Shape(tree) # Shape(origin)

\* C4: the tree does not depend on the order of the input list: every
\* permutation of the list reconstructs to the same tree.
C4_OrderIndependent ==
    pc = "built" =>
        \A p \in Permutations(DOMAIN windows) :
            reconstruct_tree([i \in DOMAIN windows |-> windows[p[i]]]) = tree

\* C5: reconstruction of an empty list fails and yields no tree.
C5_EmptyInputFails ==
    (windows = <<>> /\ pc # "query") => (pc = "failed" /\ tree = NoneNode)

C5_WitnessEmpty == pc = "failed" /\ windows = <<>> /\ tree = NoneNode

\* the sort key the claim gives a window of the fallback Stack
ClaimedFallbackKey(w) == IF w.stack_index = NoIndex THEN w.id ELSE w.stack_index

\* C6: two or more windows, not all of one rectangle, without a clean split line
\* reconstruct to one Stack of all the windows over their bounding box, ordered
\* by stack index, the key of a window without a stack index being its id.
C6_FallbackStackOrder ==
    (pc = "built" /\ Len(windows) >= 2 /\ ~AllSameFrame(windows)
        /\ _find_best_split(windows) = NoSplit) =>
        /\ HoldsAll(tree, windows)
        /\ tree.frame = _create_frame_from_windows(windows)
        /\ \A i, j \in DOMAIN tree.windows : i < j =>
              ClaimedFallbackKey(RawById(windows, tree.windows[i].id))
                  <= ClaimedFallbackKey(RawById(windows, tree.windows[j].id))

\* the bounding box of two rectangles
BoundingBox(f, g) ==
    LET min_x == IF left(f) <= left(g) THEN left(f) ELSE left(g)
        min_y == IF top(f) <= top(g) THEN top(f) ELSE top(g)
        max_r == IF right(f) >= right(g) THEN right(f) ELSE right(g)
        max_b == IF bottom(f) >= bottom(g) THEN bottom(f) ELSE bottom(g)
    IN Frame(min_x, min_y, max_r - min_x, max_b - min_y)

RECURSIVE SplitInvariant(_)
SplitInvariant(node) ==
    node.type = "split" =>
        /\ node.frame = BoundingBox(node.first_child.frame, node.second_child.frame)
        /\ IF node.split_type = VERTICAL
           THEN right(node.first_child.frame) <= left(node.second_child.frame)
           ELSE bottom(node.first_child.frame) <= top(node.second_child.frame)
        /\ SplitInvariant(node.first_child)
        /\ SplitInvariant(node.second_child)

\* C7: every Split of a reconstructed tree has the bounding box of its two
\* children as its rectangle, and its first child ends where or before its second
\* child begins along the split axis.
C7_SplitInvariant == pc = "built" => SplitInvariant(tree)

(***************************************************************************)
(* Properties of the locator and of the sibling runs (checked under Spec)  *)
(***************************************************************************)
UniqueIds(node) == Cardinality(WindowIds(node)) = Len(AllWindows(node))
Searched == pc \in {"found", "notfound", "siblings"}

\* the Splits on the way from a node down to the window with the given id
RECURSIVE PathSplits(_, _)
PathSplits(node, id) ==
    IF node.type # "split" THEN <<>>
    ELSE IF id \in WindowIds(node.first_child)
         THEN <<node>> \o PathSplits(node.first_child, id)
         ELSE <<node>> \o PathSplits(node.second_child, id)

\* the leaf that holds the window with the given id
RECURSIVE LeafOf(_, _)
LeafOf(node, id) ==
    IF node.type # "split" THEN node
    ELSE IF id \in WindowIds(node.first_child)
         THEN LeafOf(node.first_child, id)
         ELSE LeafOf(node.second_child, id)

\* C8: in a tree with unique window ids, find_window of an id of the tree returns
\* that window, with the Splits from the root down to its closest parent as
\* ancestors, is_first_child telling whether its leaf is the first child of the
\* closest Split (false without one), and parent_stack the Stack that holds it
\* (unset for a bare Window).
C8_LocatorCorrect ==
    (Searched /\ UniqueIds(tree) /\ target \in WindowIds(tree)) =>
        LET path == PathSplits(tree, target)
            leaf == LeafOf(tree, target)
        IN /\ pc # "notfound"
           /\ found_node.window.id = target
           /\ found_node.window \in Range(AllWindows(leaf))
           /\ found_node.ancestors = path
           /\ Len(found_node.ancestors) = Len(path)
           /\ found_node.is_first_child =
                 (path # <<>> /\ target \in WindowIds(path[Len(path)].first_child))
           /\ found_node.parent_stack = (IF leaf.type = "stack" THEN leaf ELSE NoneNode)

C8_WitnessLocated ==
    /\ pc = "found"
    /\ UniqueIds(tree)
    /\ Len(found_node.ancestors) = 2
    /\ found_node.parent_stack # NoneNode
    /\ Len(found_node.parent_stack.windows) = 2
    /\ found_node.window = found_node.parent_stack.windows[2]
    /\ ~found_node.is_first_child

\* C9: find_window of an id that no Window leaf and no Stack member carries
\* returns None, and the ancestor list is empty again when the search returns.
C9_AbsentGivesNone ==
    (Searched /\ target \notin WindowIds(tree)) =>
        /\ pc = "notfound"
        /\ found_node = NoneContext
        /\ ancestors = <<>>

C9_WitnessAbsent ==
    /\ pc = "notfound"
    /\ HasNestedSplit(tree)
    /\ target \notin WindowIds(tree)

\* line 98 falls back to [self.window]: several groups and the window in none
FallbackReached(ctx) ==
    /\ ~(ctx.parent_stack # NoneNode /\ Len(ctx.parent_stack.windows) > 1)
    /\ ctx.ancestors # <<>>
    /\ LET groups == consecutive_siblings_groups(ctx) IN
        /\ Len(groups) # 1
        /\ \A k \in DOMAIN groups : ~InGroup(groups[k], ctx.window)

\* C10: the list consecutive_split_siblings returns holds the located window,
\* and the singleton fallback for a window found in no group is never taken.
C10_SiblingsHoldWindow ==
    pc = "siblings" =>
        /\ InGroup(siblings, found_node.window)
        /\ ~FallbackReached(found_node)

C10_WitnessSeveralGroups ==
    /\ pc = "siblings"
    /\ found_node.ancestors # <<>>
    /\ found_node.parent_stack = NoneNode
    /\ Len(consecutive_siblings_groups(found_node)) > 1
    /\ Len(siblings) > 1

\* the windows of all the groups, in group order
RECURSIVE Flat(_)
Flat(groups) == IF groups = <<>> THEN <<>> ELSE Head(groups) \o Flat(Tail(groups))

\* how many positions of a list hold w
Count(s, w) == Cardinality({i \in DOMAIN s : s[i] = w})

\* the windows beneath a node that no Split of the other axis lies above
RECURSIVE RunWindows(_, _)
RunWindows(node, axis) ==
    CASE node.type = "window" -> <<node>>
      [] node.type = "stack" -> node.windows
      [] node.type = "split" ->
            IF node.split_type = axis
            THEN RunWindows(node.first_child, axis) \o RunWindows(node.second_child, axis)
            ELSE <<>>

\* the Splits of the other axis met first on the way down from a node
RECURSIVE Breaks(_, _)
Breaks(node, axis) ==
    IF node.type # "split" THEN 0
    ELSE IF node.split_type = axis
         THEN Breaks(node.first_child, axis) + Breaks(node.second_child, axis)
         ELSE 1

Located == pc \in {"found", "siblings"}
ClosestAxis(ctx) == ctx.ancestors[Len(ctx.ancestors)].split_type

\* C11 as claimed: for a located window with a Split ancestor, the groups of the
\* sibling-run traversal together hold every Window leaf and every Stack member
\* beneath the start node exactly once.
C11_GroupsCoverStartNode ==
    (Located /\ found_node.ancestors # <<>>) =>
        LET all == AllWindows(start_node_of(found_node.ancestors))
            held == Flat(consecutive_siblings_groups(found_node))
        IN \A w \in Range(all) \cup Range(held) : Count(held, w) = Count(all, w)

\* C11 as amended: the groups together hold, as often as it occurs there, every
\* Window leaf and Stack member beneath the start node that does not lie beneath a
\* Split of the other axis, and nothing else; the windows beneath such a Split are
\* skipped, and every such Split met opens one more group.
C11_GroupsCoverRun ==
    (Located /\ found_node.ancestors # <<>>) =>
        LET start == start_node_of(found_node.ancestors)
            axis == ClosestAxis(found_node)
            groups == consecutive_siblings_groups(found_node)
            run == RunWindows(start, axis)
        IN /\ \A w \in Range(AllWindows(start)) \cup Range(Flat(groups)) :
                 Count(Flat(groups), w) = Count(run, w)
           /\ Len(groups) = 1 + Breaks(start, axis)

C11_WitnessSkippedSubtree ==
    /\ Located
    /\ Len(found_node.ancestors) >= 2
    /\ UniqueIds(tree)
    /\ LET start == start_node_of(found_node.ancestors) IN
        /\ start # found_node.ancestors[Len(found_node.ancestors)]
        /\ Len(RunWindows(start, ClosestAxis(found_node))) < Len(AllWindows(start))
        /\ Len(RunWindows(start, ClosestAxis(found_node))) >= 2

IsMultiStacked(ctx) == ctx.parent_stack # NoneNode /\ Len(ctx.parent_stack.windows) > 1

\* C12: for a window in a Stack of more than one member, consecutive_split_siblings
\* returns that Stack's member list in stack order, whatever Splits lie above; for
\* a window without Split ancestor that is not in such a Stack it returns the
\* list of that window alone.
C12_StackOrRootSiblings ==
    pc = "siblings" =>
        /\ IsMultiStacked(found_node) => siblings = found_node.parent_stack.windows
        /\ (~IsMultiStacked(found_node) /\ found_node.ancestors = <<>>) =>
              siblings = <<found_node.window>>

C12_WitnessStackUnderSplits ==
    /\ pc = "siblings"
    /\ IsMultiStacked(found_node)
    /\ Len(found_node.ancestors) = 2
    /\ found_node.ancestors[1].split_type = found_node.ancestors[2].split_type
    /\ siblings = found_node.parent_stack.windows

(***************************************************************************)
(* Properties of the stack command (checked under Spec)                    *)
(***************************************************************************)
Commanded == pc \in {"running", "done"}
\* the calls made so far, and whether all of them succeeded
Calls == [i \in DOMAIN issued |-> issued[i].call]
AllOk == \A i \in DOMAIN issued : issued[i].ok
\* the command does a fold only: no --toggle, or nothing to unroll
FoldOnly == ~toggle \/ ~IsMultiStacked(found_node)
YabaiCallsOf(steps) == SelectSeq(steps, IsYabaiCall)

\* C13: fold-to-stack for a located window without Split ancestor (a root window
\* or a root stack) ends with the failure exit and makes no yabai call at all.
C13_RootFoldFails ==
    (Commanded /\ FoldOnly /\ found_node.ancestors = <<>>) =>
        /\ issued = <<>>
        /\ pc = "running" => plan = <<RaiseExit>>
        /\ pc = "done" => outcome = "exit1"

C13_WitnessRootStack ==
    /\ pc = "done"
    /\ ~toggle
    /\ found_node.ancestors = <<>>
    /\ IsMultiStacked(found_node)
    /\ outcome = "exit1"
    /\ issued = <<>>

\* the ids of the row in `windows`, from first to last
RowId(i) == windows[i].id
FoldFinished == pc = "done" /\ ~toggle /\ AllOk

\* C14 as claimed (Scenario D): fold-to-stack on any window of a row of three
\* makes exactly 2 stack calls, both with the last window of the row as target,
\* the first window being folded before the second.
C14_ScenarioD ==
    (FoldFinished /\ windows \in EvenRows) =>
        Calls = <<stack(RowId(3), RowId(1)), stack(RowId(3), RowId(2))>>

\* C14 as amended: fold-to-stack on any window of a row of three that are
\* separated by equal gaps makes exactly 2 stack calls: the second window is
\* stacked into the last one, then the first window into the second one, which
\* by then is in the stack of the last; all three end in one stack.
C14_ScenarioDRightToLeft ==
    (FoldFinished /\ windows \in EvenRows) =>
        /\ Calls = <<stack(RowId(3), RowId(2)), stack(RowId(2), RowId(1))>>
        /\ outcome = "ok"
        /\ stacks = {{RowId(1), RowId(2), RowId(3)}}

C14_WitnessRowFolded ==
    /\ FoldFinished
    /\ windows \in EvenRows
    /\ target = RowId(1)
    /\ Len(issued) = 2
    /\ outcome = "ok"

\* a subtree of Splits of one axis over Window and Stack leaves
RECURSIVE OnlyFoldAxis(_, _)
OnlyFoldAxis(node, axis) ==
    node.type = "split" =>
        /\ node.split_type = axis
        /\ OnlyFoldAxis(node.first_child, axis)
        /\ OnlyFoldAxis(node.second_child, axis)

\* C15: when the subtree of the start node has only Splits of the fold axis over
\* Window and Stack leaves, executing the whole fold plan in order leaves every
\* window beneath the start node in one single stack.
C15_FoldLeavesOneStack ==
    (pc = "done" /\ FoldOnly /\ outcome = "ok" /\ found_node.ancestors # <<>>
        /\ OnlyFoldAxis(fold_start_node(found_node.ancestors), ClosestAxis(found_node))) =>
        \E g \in stacks : WindowIds(fold_start_node(found_node.ancestors)) \subseteq g

C15_WitnessFolded ==
    /\ pc = "done"
    /\ ~toggle
    /\ outcome = "ok"
    /\ Len(found_node.ancestors) = 2
    /\ LET start == fold_start_node(found_node.ancestors) IN
        /\ start = tree
        /\ OnlyFoldAxis(start, ClosestAxis(found_node))
        /\ start.first_child.type = "stack"
        /\ Len(start.first_child.windows) = 2
        /\ stacks = {WindowIds(start)}
    /\ Len(issued) >= 3

\* C16: with --toggle, a window that is in no stack is folded (the calls are
\* exactly those of the fold plan), and for a window in a Stack of several members
\* all the calls of the unroll of that Stack along the closest ancestor's axis
\* (HORIZONTAL at the root) are made first and those of the fold plan after them.
C16_ToggleUnrollsThenFolds ==
    (pc = "done" /\ toggle /\ AllOk) =>
        /\ found_node.parent_stack = NoneNode =>
              Calls = YabaiCallsOf(_stack_recursive_splits(found_node))
        /\ IsMultiStacked(found_node) =>
              Calls = YabaiCallsOf(_unroll_stack(found_node.parent_stack,
                                       IF found_node.ancestors = <<>> THEN HORIZONTAL
                                       ELSE ClosestAxis(found_node)))
                      \o YabaiCallsOf(_stack_recursive_splits(found_node))

\* C17: unrolling a Stack of zero or one member makes no yabai call: the toggle
\* command of a window in a one-member Stack issues nothing but the stack calls
\* of the fold.
C17_SmallStackUnrollNoOp ==
    /\ \A t \in SplitType : _unroll_stack(Stack(<<>>, FrameA), t) = <<>>
    /\ (Commanded /\ toggle /\ found_node.parent_stack # NoneNode
            /\ Len(found_node.parent_stack.windows) = 1) =>
          /\ \A t \in SplitType : _unroll_stack(found_node.parent_stack, t) = <<>>
          /\ \A i \in DOMAIN issued : issued[i].call.op = "stack"
          /\ \A i \in DOMAIN plan : plan[i].op \in {"stack", "exit"}

C17_WitnessOneMemberToggle ==
    /\ pc = "done"
    /\ toggle
    /\ found_node.parent_stack # NoneNode
    /\ Len(found_node.parent_stack.windows) = 1
    /\ Len(issued) >= 1
    /\ outcome = "ok"

\* the steps the command set out to execute
Intended ==
    IF toggle THEN _handle_toggle_operation(found_node)
    ELSE _stack_recursive_splits(found_node)

\* C18: a yabai call that fails is the last call the command makes (no later
\* step is executed, the call is not made again), and the command ends with the
\* failure exit.
C18_FailureEndsCommand ==
    \A i \in DOMAIN issued :
        ~issued[i].ok =>
            /\ i = Len(issued)
            /\ pc = "done"
            /\ plan = <<>>
            /\ outcome = "exit1"

C18_WitnessPartialFailure ==
    /\ pc = "done"
    /\ Len(issued) >= 2
    /\ ~issued[Len(issued)].ok
    /\ Len(issued) < Len(YabaiCallsOf(Intended))
    /\ outcome = "exit1"

(***************************************************************************)
(* Properties of the rendering (checked under Spec)                        *)
(***************************************************************************)
\* the tree with every Stack of one window replaced by that bare Window
RECURSIVE Unwrapped(_)
Unwrapped(node) ==
    CASE node.type = "stack" -> IF Len(node.windows) = 1 THEN node.windows[1] ELSE node
      [] node.type = "split" ->
            [node EXCEPT !.first_child = Unwrapped(node.first_child),
                         !.second_child = Unwrapped(node.second_child)]
      [] OTHER -> node

NoOneWindowStackLabel(lines) ==
    \A i \in DOMAIN lines : ~(lines[i].label.kind = "stack" /\ lines[i].label.count = 1)

\* C19: a tree in which bare Window leaves are replaced by Stacks of just that
\* window (at the root, directly under the root, or deeper) is rendered as the
\* tree with the bare Windows, by format_tree and by print_rich_tree: the same
\* labels with the same nesting, and no `(1 windows)` line.
C19_StackTransparency ==
    /\ pc = "formatted" =>
          \E nf \in BOOLEAN :
              /\ output = format_tree(Unwrapped(tree), nf)
              /\ NoOneWindowStackLabel(output)
    /\ pc = "printed" =>
          \E nf \in BOOLEAN :
              /\ output = print_rich_tree(Unwrapped(tree), nf)
              /\ NoOneWindowStackLabel(output)

(***************************************************************************)
(* Properties of the split search (checked under SpecReconstruct)          *)
(***************************************************************************)
\* both sides are non-empty and every window of the list is in exactly one
ExactlyOneSide(ws, before, after) ==
    /\ before # <<>>
    /\ after # <<>>
    /\ \A i \in DOMAIN ws : (ws[i] \in Range(before)) # (ws[i] \in Range(after))

\* every line the search accepts for the list partitions it
AcceptedLinesPartition(ws) ==
    /\ \A x \in {left(w.frame) : w \in Range(ws)} \cup {right(w.frame) : w \in Range(ws)} :
          IsCleanSplit(ws, LeftOf(ws, x), RightOf(ws, x)) =>
              ExactlyOneSide(ws, LeftOf(ws, x), RightOf(ws, x))
    /\ \A y \in {top(w.frame) : w \in Range(ws)} \cup {bottom(w.frame) : w \in Range(ws)} :
          IsCleanSplit(ws, TopOf(ws, y), BottomOf(ws, y)) =>
              ExactlyOneSide(ws, TopOf(ws, y), BottomOf(ws, y))

\* the lists _build_tree_recursive searches, from ws down, are all partitioned by
\* the lines accepted for them and by the sides built from the chosen line
RECURSIVE PartitionsCleanly(_)
PartitionsCleanly(ws) ==
    IF Len(ws) < 2 \/ AllSameFrame(ws) THEN TRUE
    ELSE /\ AcceptedLinesPartition(ws)
         /\ LET split == _find_best_split(ws) IN
            split # NoSplit =>
                LET before == IF split.split_type = VERTICAL
                              THEN LeftOf(ws, split.line) ELSE TopOf(ws, split.line)
                    after == IF split.split_type = VERTICAL
                             THEN RightOf(ws, split.line) ELSE BottomOf(ws, split.line)
                IN /\ ExactlyOneSide(ws, before, after)
                   /\ PartitionsCleanly(before)
                   /\ PartitionsCleanly(after)

\* C20: every line the split search accepts as clean, and the two sides built
\* from the chosen line, put each window of the current list in exactly one of
\* the two sides, both sides being non-empty.
C20_CleanMeansPartition == pc = "built" => PartitionsCleanly(windows)

\* the candidate lines in the order of the scan: the vertical ones ascending,
\* then the horizontal ones ascending
Candidates(ws) ==
    LET xs == SortedList({left(w.frame) : w \in Range(ws)}
                         \cup {right(w.frame) : w \in Range(ws)})
        ys == SortedList({top(w.frame) : w \in Range(ws)}
                         \cup {bottom(w.frame) : w \in Range(ws)})
    IN [i \in DOMAIN xs |-> [split_type |-> VERTICAL, line |-> xs[i]]]
       \o [i \in DOMAIN ys |-> [split_type |-> HORIZONTAL, line |-> ys[i]]]

BeforeLine(ws, c) ==
    IF c.split_type = VERTICAL THEN LeftOf(ws, c.line) ELSE TopOf(ws, c.line)
AfterLine(ws, c) ==
    IF c.split_type = VERTICAL THEN RightOf(ws, c.line) ELSE BottomOf(ws, c.line)

\* a clean line: every window wholly on one side, both sides non-empty
CleanLine(ws, c) == ExactlyOneSide(ws, BeforeLine(ws, c), AfterLine(ws, c))

\* the distance between the centres of the two sides' bounding boxes (doubled)
SpreadOf(ws, c) ==
    LET b == _create_frame_from_windows(BeforeLine(ws, c))
        a == _create_frame_from_windows(AfterLine(ws, c))
    IN IF c.split_type = VERTICAL THEN Abs(center_x(b) - center_x(a))
       ELSE Abs(center_y(b) - center_y(a))

\* the positions of the clean lines among the candidates
CleanLines(ws) == {k \in DOMAIN Candidates(ws) : CleanLine(ws, Candidates(ws)[k])}

\* the first, in scan order, of the lines of widest spread among the candidates
\* at the positions `good`; NoSplit if there is none
FirstWidest(ws, good) ==
    LET cs == Candidates(ws)
    IN IF good = {} THEN NoSplit
       ELSE cs[MinOf({k \in good : \A j \in good : SpreadOf(ws, cs[j]) <= SpreadOf(ws, cs[k])})]

\* _find_best_split is called for lists of two or more windows that are not all
\* of one rectangle
Searches(ws) == Len(ws) >= 2 /\ ~AllSameFrame(ws)

\* C21: _find_best_split returns the clean candidate line of widest spread, the
\* first in scan order (vertical lines ascending, then horizontal ones ascending)
\* among several of that spread, and no split exactly when no candidate is clean.
C21_WidestCleanLine ==
    (pc = "built" /\ Searches(windows)) =>
        _find_best_split(windows) = FirstWidest(windows, CleanLines(windows))

(***************************************************************************)
(* C22: the sibling run of a window is its own segment                     *)
(***************************************************************************)

\* the leaves of the run beneath a node, each with the number of Splits of the
\* other axis that come before it in first-child-before-second-child order
RECURSIVE Tagged(_, _, _)
Tagged(node, axis, k) ==
    CASE node.type = "window" -> <<[window |-> node, seg |-> k]>>
      [] node.type = "stack" ->
            [i \in DOMAIN node.windows |-> [window |-> node.windows[i], seg |-> k]]
      [] node.type = "split" ->
            IF node.split_type = axis
            THEN Tagged(node.first_child, axis, k)
                 \o Tagged(node.second_child, axis, k + Breaks(node.first_child, axis))
            ELSE <<>>

\* the highest ancestor that only Splits of the closest parent's axis separate
\* from the window
HighestSameAxis(anc) ==
    anc[MinOf({i \in DOMAIN anc :
                 \A j \in i..Len(anc) : anc[j].split_type = anc[Len(anc)].split_type})]

\* the windows that no Split of the other axis separates from the located window
OwnSegment(ctx) ==
    LET t == Tagged(HighestSameAxis(ctx.ancestors), ClosestAxis(ctx), 0)
        p == MinOf({i \in DOMAIN t : t[i].window = ctx.window})
        Same(e) == e.seg = t[p].seg
        own == SelectSeq(t, Same)
    IN [i \in DOMAIN own |-> own[i].window]

\* C22: for a located window with a Split ancestor and no enclosing Stack of
\* several members, consecutive_split_siblings returns exactly the windows of
\* the window's own segment, in leaf order: the leaves beneath the highest
\* ancestor of the closest parent's axis that no Split of the other axis
\* separates from the window.
C22_OwnSegment ==
    (pc = "siblings" /\ found_node.ancestors # <<>> /\ ~IsMultiStacked(found_node)) =>
        siblings = OwnSegment(found_node)

\* the docstring tree and window 3: the result is windows 1, 2, 3
C22_WitnessDocTree ==
    /\ pc = "siblings"
    /\ tree = DocTree
    /\ target = 3
    /\ [i \in DOMAIN siblings |-> siblings[i].id] = <<1, 2, 3>>

(***************************************************************************)
(* C23: the fold and the sub-layouts of the other axis                     *)
(***************************************************************************)

\* the windows beneath a node that lie beneath a Split of the other axis
RECURSIVE PerpendicularWindows(_, _)
PerpendicularWindows(node, axis) ==
    IF node.type # "split" THEN {}
    ELSE IF node.split_type = axis
         THEN PerpendicularWindows(node.first_child, axis)
              \cup PerpendicularWindows(node.second_child, axis)
         ELSE WindowIds(node)

\* C23: no call of the fold names, as the window that is moved or as the window
\* it is stacked into, a window that lies beneath a Split of the other axis under
\* the start node.
C23_FoldSkipsPerpendicular ==
    (Commanded /\ FoldOnly /\ found_node.ancestors # <<>>) =>
        LET skipped == PerpendicularWindows(fold_start_node(found_node.ancestors),
                                            ClosestAxis(found_node))
        IN \A i \in DOMAIN issued :
              /\ issued[i].call.window \notin skipped
              /\ issued[i].call.target \notin skipped

(***************************************************************************)
(* C24: the order of the fold plan                                         *)
(***************************************************************************)

\* the Splits of an axis reachable from a node through Splits of that axis, each
\* after the Splits of its first child and then those of its second child
RECURSIVE PostOrderSplits(_, _)
PostOrderSplits(node, axis) ==
    IF node.type = "split" /\ node.split_type = axis
    THEN PostOrderSplits(node.first_child, axis)
         \o PostOrderSplits(node.second_child, axis) \o <<node>>
    ELSE <<>>

\* the window ids beneath a node in leaf order
IdsOf(node) == [i \in DOMAIN AllWindows(node) |-> AllWindows(node)[i].id]

\* the operations of one Split: every window id X of the first child other than
\* T is stacked into T, the first window id of the second child
OwnOperations(split) ==
    LET T == IdsOf(split.second_child)[1]
        NotT(X) == X # T
        moved == SelectSeq(IdsOf(split.first_child), NotT)
    IN [i \in DOMAIN moved |-> YabaiCall("stack", T, moved[i], "")]

RECURSIVE OperationsOf(_)
OperationsOf(splits) ==
    IF splits = <<>> THEN <<>>
    ELSE OwnOperations(Head(splits)) \o OperationsOf(Tail(splits))

\* C24: the calls of a fold that ran to its end are those of the Splits of the
\* fold axis reachable from the start node, taken in post-order: for each Split
\* one call per window id X of its first child, in leaf order, stacking X into T,
\* the first window id of its second child; no call has X equal to T.
C24_FoldPostOrder ==
    (pc = "done" /\ FoldOnly /\ AllOk /\ found_node.ancestors # <<>>) =>
        /\ Calls = OperationsOf(PostOrderSplits(HighestSameAxis(found_node.ancestors),
                                                ClosestAxis(found_node)))
        /\ \A i \in DOMAIN Calls : Calls[i].window # Calls[i].target

\* two Splits of the fold axis, one beneath the other, each with operations
C24_WitnessNestedFold ==
    /\ pc = "done"
    /\ ~toggle
    /\ AllOk
    /\ Len(found_node.ancestors) = 2
    /\ UniqueIds(tree)
    /\ Len(PostOrderSplits(tree, ClosestAxis(found_node))) = 2
    /\ tree.first_child.type = "split"
    /\ Len(issued) = 3

(***************************************************************************)
(* C25: the insert directions of the unroll                                *)
(***************************************************************************)

\* the command unrolls: --toggle on a window in a Stack of several members
Unrolling == Commanded /\ toggle /\ IsMultiStacked(found_node)
\* the axis the unroll is given: that of the closest Split, HORIZONTAL at the root
UnrollAxis ==
    IF found_node.ancestors = <<>> THEN HORIZONTAL ELSE ClosestAxis(found_node)
\* the insert directions of the warps made so far, in order
InsertDirections ==
    LET IsInsert(c) == c.op = "insert"
        ins == SelectSeq(Calls, IsInsert)
    IN [i \in DOMAIN ins |-> ins[i].direction]

\* C25 as claimed: the first warp of an unroll under a parent of axis A inserts
\* at the start direction of the axis opposite to A and all later warps at the
\* opposite of that: WEST then EAST under a VERTICAL parent, NORTH then SOUTH
\* under a HORIZONTAL parent or at the root.
C25_UnrollAcrossParentAxis ==
    Unrolling =>
        \A i \in DOMAIN InsertDirections :
            InsertDirections[i] =
                IF UnrollAxis = VERTICAL THEN (IF i = 1 THEN WEST ELSE EAST)
                ELSE (IF i = 1 THEN NORTH ELSE SOUTH)

\* C25 as amended: the first warp of an unroll under a parent of axis A inserts
\* at the start direction of A itself and every later warp at the opposite of
\* that: NORTH then SOUTH under a VERTICAL parent, WEST then EAST under a
\* HORIZONTAL parent or at the root.
C25_UnrollAlongStartDirection ==
    Unrolling =>
        \A i \in DOMAIN InsertDirections :
            InsertDirections[i] =
                IF UnrollAxis = VERTICAL THEN (IF i = 1 THEN NORTH ELSE SOUTH)
                ELSE (IF i = 1 THEN WEST ELSE EAST)

\* an unroll under a VERTICAL parent that made its first two warps
C25_WitnessTwoWarps ==
    /\ Unrolling
    /\ pc = "done"
    /\ found_node.ancestors # <<>>
    /\ UnrollAxis = VERTICAL
    /\ InsertDirections = <<NORTH, SOUTH>>

(***************************************************************************)
(* C26: the order of the unroll plan                                       *)
(***************************************************************************)

\* the later warps: member i + 1 onto member i, the one placed just before it
RECURSIVE WarpsOntoPreceding(_, _, _)
WarpsOntoPreceding(ids, i, append) ==
    IF i >= Len(ids) THEN <<>>
    ELSE warp(ids[i + 1], ids[i], append) \o WarpsOntoPreceding(ids, i + 1, append)

\* the unroll plan of a Stack with members ids[1], ..., ids[n]
ChainedUnroll(ids, start) ==
    <<toggle_float(ids[1]), toggle_float(ids[1])>>
    \o warp(ids[1], ids[2], start)
    \o WarpsOntoPreceding(ids, 1, opposite(start))

\* C26: the unroll of a Stack of several members toggles the floating state of
\* its first member twice, warps it onto the rest of the Stack, then warps every
\* remaining member, in stack order, onto the member placed just before it, and
\* completes without error.
C26_UnrollPlanCompletes ==
    (Unrolling /\ pc = "done" /\ AllOk) =>
        LET expected == ChainedUnroll(IdsOf(found_node.parent_stack),
                                      start_direction(UnrollAxis))
        IN /\ outcome # "crash"
           /\ Len(Calls) >= Len(expected)
           /\ SubSeq(Calls, 1, Len(expected)) = expected

(***************************************************************************)
(* C27, C28: preservation of the windows and termination                   *)
(***************************************************************************)

DistinctIds(ws) == \A i, j \in DOMAIN ws : ws[i].id = ws[j].id => i = j

\* C27: for a non-empty list of windows with distinct ids, the leaves of the
\* reconstructed tree, Window leaves and Stack members, hold every window id of
\* the list exactly once and no other id.
C27_WindowsPreserved ==
    (pc = "built" /\ windows # <<>> /\ DistinctIds(windows)) =>
        /\ tree # ValueError
        /\ \A i \in DOMAIN windows : Count(IdsOf(tree), windows[i].id) = 1
        /\ Len(IdsOf(tree)) = Len(windows)

\* the height of a tree: the nesting of the calls that built it
RECURSIVE Depth(_)
Depth(node) ==
    IF node.type = "split"
    THEN 1 + MaxOf({Depth(node.first_child), Depth(node.second_child)})
    ELSE 1

\* every call beneath the call on ws gets a list that is neither empty nor as
\* long as its caller's
RECURSIVE CallsShrink(_)
CallsShrink(ws) ==
    IF ws = <<>> THEN FALSE
    ELSE IF Len(ws) = 1 \/ AllSameFrame(ws) THEN TRUE
    ELSE LET split == _find_best_split(ws) IN
         split = NoSplit \/
            LET c == [split_type |-> split.split_type, line |-> split.line]
                before == BeforeLine(ws, c)
                after == AfterLine(ws, c)
            IN /\ Len(before) \in 1..(Len(ws) - 1)
               /\ Len(after) \in 1..(Len(ws) - 1)
               /\ CallsShrink(before)
               /\ CallsShrink(after)

\* C28: reconstruction of a non-empty list ends with a tree: every recursive
\* call gets a non-empty list strictly shorter than its caller's, no call is
\* made with an empty list, and the calls nest no deeper than the number of
\* windows.
C28_RecursionShrinks ==
    windows # <<>> =>
        /\ pc # "failed"
        /\ pc = "built" => (CallsShrink(windows) /\ Depth(tree) <= Len(windows))

\* a reconstruction that split twice, one call beneath the other
C28_WitnessNestedCalls ==
    /\ pc = "built"
    /\ Len(windows) = 3
    /\ CallsShrink(windows)
    /\ Depth(tree) = 3

(***************************************************************************)
(* C29: symmetry of the sibling relation                                   *)
(***************************************************************************)

\* the siblings reported for the window with the given id
SiblingsOf(id) == consecutive_split_siblings(find_window(tree, id).result)

\* C29 as claimed: in a tree with unique window ids, if b is among the siblings
\* of the located a, then a is among the siblings of the located b.
C29_SiblingsSymmetric ==
    (pc = "siblings" /\ UniqueIds(tree)) =>
        \A i \in DOMAIN siblings :
            InGroup(SiblingsOf(siblings[i].id), found_node.window)

\* a is outside a Stack of several members that b is in
StackedApart(a, b) ==
    LET ctx == find_window(tree, b.id).result
    IN IsMultiStacked(ctx) /\ ~InGroup(ctx.parent_stack.windows, a)

\* C29 as amended: in a tree with unique window ids, if b is among the siblings
\* of the located a, and b is not in a Stack of several members that a is
\* outside of, then a is among the siblings of the located b.
C29_SiblingsSymmetricOutsideStacks ==
    (pc = "siblings" /\ UniqueIds(tree)) =>
        \A i \in DOMAIN siblings :
            ~StackedApart(found_node.window, siblings[i]) =>
                InGroup(SiblingsOf(siblings[i].id), found_node.window)

\* a run of three windows under two Splits of one axis, seen from its last window
C29_WitnessRunOfThree ==
    /\ pc = "siblings"
    /\ UniqueIds(tree)
    /\ Len(found_node.ancestors) = 2
    /\ ~IsMultiStacked(found_node)
    /\ Len(siblings) = 3
    /\ \A i \in DOMAIN siblings :
          /\ ~StackedApart(found_node.window, siblings[i])
          /\ SiblingsOf(siblings[i].id) = siblings
    /\ siblings[3] = found_node.window

(***************************************************************************)
(* C30: the resize command                                                 *)
(***************************************************************************)

\* the located window lies beneath the first child of its closest Split
BeneathFirstChild ==
    target \in WindowIds(found_node.ancestors[Len(found_node.ancestors)].first_child)

\* C30: for a window with a Split ancestor the resize command makes exactly one
\* resize call, on that window: under a VERTICAL closest Split the right edge by
\* (+increment, 0) for a window of the first child and the left edge by
\* (-increment, 0) for one of the second child, under a HORIZONTAL closest Split
\* the bottom edge by (0, +increment) and the top edge by (0, -increment); for a
\* window without Split ancestor it makes no call and fails.
C30_ResizeTowardsSplit ==
    pc = "resized" =>
        IF found_node.ancestors = <<>>
        THEN resizes = <<>> /\ outcome = "exit1"
        ELSE /\ Len(resizes) = 1
             /\ resizes[1].call.op = "resize"
             /\ resizes[1].call.window = target
             /\ <<resizes[1].call.axis, resizes[1].call.delta_x, resizes[1].call.delta_y>> =
                   CASE ClosestAxis(found_node) = VERTICAL /\ BeneathFirstChild ->
                            <<"right", increment, 0>>
                     [] ClosestAxis(found_node) = VERTICAL /\ ~BeneathFirstChild ->
                            <<"left", 0 - increment, 0>>
                     [] ClosestAxis(found_node) = HORIZONTAL /\ BeneathFirstChild ->
                            <<"bottom", 0, increment>>
                     [] ClosestAxis(found_node) = HORIZONTAL /\ ~BeneathFirstChild ->
                            <<"top", 0, 0 - increment>>

\* a window of the second child of a HORIZONTAL Split, resized by 10
C30_WitnessSecondChild ==
    /\ pc = "resized"
    /\ UniqueIds(tree)
    /\ Len(found_node.ancestors) = 2
    /\ ClosestAxis(found_node) = HORIZONTAL
    /\ ~BeneathFirstChild
    /\ increment = 10
    /\ resizes = <<[call |-> resize(target, "top", 0, -10), ok |-> TRUE]>>
    /\ outcome = "ok"

====
